---- MODULE Spec2Model ----
(***************************************************************************)
(* Model of aco_camera_csv_converter: CoordinateProcessor and              *)
(* TransformationService (services.py), CoordinateData and                 *)
(* TransformationInput (models.py).                                        *)
(*                                                                         *)
(* Conventions.                                                            *)
(*  - A Python str is a sequence of one-character strings; the degree sign  *)
(*    is the character "deg" and the double quote the character "dq".      *)
(*  - A Float64 holding an angle is an integer number of arc-seconds        *)
(*    (1/3600 degree), so that deg + min/60 + sec/3600 is exact; every      *)
(*    other Float64 is an integer.                                         *)
(*  - A polars DataFrame is columnar: height, ordered column names, and    *)
(*    per column a dtype and a list of height values.                      *)
(*  - A Python call that raises is a record [ok |-> FALSE, err |-> kind]. *)
(***************************************************************************)
EXTENDS Integers, Sequences, FiniteSets, TLC

\* ------------------------------------------------------------------ bounds
MaxRows == 2

\* ------------------------------------------------------------ column names
TS    == "Timestamp"
FN    == "Filename"
LAT   == "Origin (Latitude[deg]"
LON   == "Longitude[deg]"
ALT   == "Altitude[m])"
CX    == "Origin (X[m]"
CY    == "Y[m]"
CZ    == "Z[m])"
ROLL  == "Roll(X)[deg]"
PITCH == "Pitch(Y)[deg]"
YAW   == "Yaw(Z)[deg]"
OMEGA == "Omega[deg]"
PHI   == "Phi[deg]"
KAPPA == "Kappa[deg]"
RGBI  == "RGBI_Filename"
RGB   == "RGB_Filename"
EAST  == "Easting[m]"
NORTH == "Northing[m]"
ALTP  == "Altitude[m]"
CONV  == "converted"

\* Python None where a record is expected, and where a coord_type string is
None == [none |-> TRUE]
NoCoordType == "None"

Raise(kind) == [ok |-> FALSE, err |-> kind]

\* Bind(e, F) is F(e) with e evaluated once, as Python evaluates an
\* argument or the right-hand side of an assignment once.
Bind(e, F(_)) == CHOOSE r \in {F(v) : v \in {e}} : TRUE

\* ------------------------------------------------------------- Python str
StartsWithAt(s, i, pat) ==
    /\ i + Len(pat) - 1 <= Len(s)
    /\ \A k \in 1..Len(pat) : s[i + k - 1] = pat[k]

RECURSIVE ReplaceFrom(_, _, _, _)
ReplaceFrom(s, i, pat, rep) ==
    IF i > Len(s) THEN <<>>
    ELSE IF StartsWithAt(s, i, pat) THEN rep \o ReplaceFrom(s, i + Len(pat), pat, rep)
    ELSE <<s[i]>> \o ReplaceFrom(s, i + 1, pat, rep)

\* str.replace(pat, rep) and polars str.replace_all(pat, rep, literal=True):
\* every non-overlapping occurrence of pat, left to right.
StrReplaceAll(s, pat, rep) == Bind(s, LAMBDA v : ReplaceFrom(v, 1, pat, rep))

RECURSIVE SplitFrom(_, _, _, _)
SplitFrom(s, i, sep, start) ==
    IF i > Len(s) THEN <<SubSeq(s, start, Len(s))>>
    ELSE IF StartsWithAt(s, i, sep)
         THEN <<SubSeq(s, start, i - 1)>> \o SplitFrom(s, i + Len(sep), sep, i + Len(sep))
         ELSE SplitFrom(s, i + 1, sep, start)

\* str.split(sep)
StrSplit(s, sep) == Bind(s, LAMBDA v : SplitFrom(v, 1, sep, 1))

\* polars str.contains(pat) for a pattern without regex metacharacters
StrContains(s, pat) == \E i \in 1..Len(s) : StartsWithAt(s, i, pat)

Digits == {"0", "1", "2", "3", "4", "5", "6", "7", "8", "9"}

DigitVal(c) ==
    CASE c = "0" -> 0 [] c = "1" -> 1 [] c = "2" -> 2 [] c = "3" -> 3
      [] c = "4" -> 4 [] c = "5" -> 5 [] c = "6" -> 6 [] c = "7" -> 7
      [] c = "8" -> 8 [] c = "9" -> 9

RECURSIVE DigitsVal(_, _)
\* the number written by the first n digits of d
DigitsVal(d, n) ==
    IF n = 0 THEN 0 ELSE 10 * DigitsVal(d, n - 1) + DigitVal(d[n])

\* str.strip() of blanks
StrStrip(s) ==
    Bind(s, LAMBDA v :
        LET idx == {i \in 1..Len(v) : v[i] # " "}
        IN  IF idx = {} THEN <<>>
            ELSE SubSeq(v, CHOOSE i \in idx : \A j \in idx : i <= j,
                           CHOOSE i \in idx : \A j \in idx : i >= j))

\* float(s) for the numerals of the model: optional surrounding blanks, an
\* optional sign and one or more decimal digits; anything else is ValueError.
PyFloat(s) ==
    Bind(StrStrip(s), LAMBDA t :
        LET signed == t # <<>> /\ t[1] \in {"-", "+"}
            d == IF signed THEN Tail(t) ELSE t
        IN  IF d # <<>> /\ \A i \in 1..Len(d) : d[i] \in Digits
            THEN [ok |-> TRUE,
                  v |-> IF signed /\ t[1] = "-" THEN 0 - DigitsVal(d, Len(d))
                        ELSE DigitsVal(d, Len(d))]
            ELSE Raise("ValueError"))

\* ---------------------------------------------------------- dms_to_decimal
\* the sum negated for the southern hemisphere only
DmsMinutesSecondsSouthOnly(direction, degrees, part) ==
    Bind(StrSplit(part, <<"'", " ">>), LAMBDA ms :
        IF Len(ms) # 2 THEN Raise("ValueError")
        ELSE Bind(<<PyFloat(ms[1]), PyFloat(ms[2])>>, LAMBDA f :
            IF ~f[1].ok \/ ~f[2].ok THEN Raise("ValueError")
            ELSE LET decimal == 3600 * degrees + 60 * f[1].v + f[2].v
                 IN  [ok |-> TRUE,
                      v |-> IF direction = "S" THEN 0 - decimal ELSE decimal]))

\* services.py 26-28, given parts[1]: minutes, seconds and the signed sum
DmsMinutesSeconds(direction, degrees, part) ==
    Bind(StrSplit(part, <<"'", " ">>), LAMBDA ms :
        IF Len(ms) # 2 THEN Raise("ValueError")
        ELSE Bind(<<PyFloat(ms[1]), PyFloat(ms[2])>>, LAMBDA f :
            IF ~f[1].ok \/ ~f[2].ok THEN Raise("ValueError")
            ELSE LET decimal == 3600 * degrees + 60 * f[1].v + f[2].v
                 IN  [ok |-> TRUE,
                      v |-> IF direction \in {"S", "W"} THEN 0 - decimal ELSE decimal]))

\* CoordinateProcessor.dms_to_decimal; the result is in arc-seconds.
dms_to_decimal(dms_str) ==
    IF dms_str = <<>> THEN Raise("IndexError")
    ELSE Bind(StrSplit(StrReplaceAll(Tail(dms_str), <<"dq">>, <<>>), <<"deg", " ">>),
         LAMBDA parts :
            Bind(PyFloat(parts[1]), LAMBDA degrees :
                IF ~degrees.ok THEN degrees
                ELSE IF Len(parts) < 2 THEN Raise("IndexError")
                ELSE DmsMinutesSeconds(dms_str[1], degrees.v, parts[2])))

\* -------------------------------------------------------- polars DataFrame
ColSet(df) == {df.columns[i] : i \in DOMAIN df.columns}

HasCol(df, c) == \E i \in DOMAIN df.columns : df.columns[i] = c

\* DataFrame.with_columns(expr.alias(c)): an existing column is replaced in
\* place, a new one is appended.
WithColumn(df, c, dt, vals) ==
    Bind(df, LAMBDA d :
        [height  |-> d.height,
         columns |-> IF HasCol(d, c) THEN d.columns ELSE Append(d.columns, c),
         dtype   |-> [k \in ColSet(d) \cup {c} |-> IF k = c THEN dt ELSE d.dtype[k]],
         data    |-> [k \in ColSet(d) \cup {c} |-> IF k = c THEN vals ELSE d.data[k]]])

\* DataFrame.drop(*cs), every c present
Drop(df, cs) ==
    Bind(df, LAMBDA d :
        [height  |-> d.height,
         columns |-> SelectSeq(d.columns, LAMBDA c : c \notin cs),
         dtype   |-> [k \in ColSet(d) \ cs |-> d.dtype[k]],
         data    |-> [k \in ColSet(d) \ cs |-> d.data[k]]])

\* DataFrame.select(*cs)
Select(df, cs) ==
    Bind(df, LAMBDA d :
        IF \E i \in DOMAIN cs : ~HasCol(d, cs[i]) THEN Raise("ColumnNotFoundError")
        ELSE [ok |-> TRUE,
              df |-> [height  |-> d.height,
                      columns |-> cs,
                      dtype   |-> [k \in {cs[i] : i \in DOMAIN cs} |-> d.dtype[k]],
                      data    |-> [k \in {cs[i] : i \in DOMAIN cs} |-> d.data[k]]]])

\* ------------------------------------------------------- input datasets
DigitChars == <<"1", "2", "3", "4", "5", "6", "7", "8", "9">>

TimestampOf(i) == <<"T", DigitChars[i]>>

FilenameOf(i) ==
    CASE i = 1 -> <<"a", ".", "i", "i", "q">>
      [] i = 2 -> <<"b", ".", "t", "i", "f">>
      [] i = 3 -> <<"c", ".", "i", "i", "q", ".", "i", "i", "q">>
      [] OTHER -> <<"d", DigitChars[i], ".", "i", "i", "q">>

\* N1deg 2' 3", S2deg 2' 3", ... and W1deg 4' 5", E2deg 4' 5", ...
LatDmsOf(i) ==
    <<IF i % 2 = 1 THEN "N" ELSE "S", DigitChars[i], "deg", " ", "2", "'", " ", "3", "dq">>

LonDmsOf(i) ==
    <<IF i % 2 = 1 THEN "W" ELSE "E", DigitChars[i], "deg", " ", "4", "'", " ", "5", "dq">>

\* the degree delimiter is missing
LatDmsMalformed == <<"N", "1", " ", "2", "'", " ", "3", "dq">>

LatDdOf(i) == IF i % 2 = 1 THEN 3600 * i + 123 ELSE 0 - (3600 * i + 123)
LonDdOf(i) == IF i % 2 = 1 THEN 0 - (3600 * i + 245) ELSE 3600 * i + 245
AltOf(i)   == 100 + 50 * i

AngleCols == <<ROLL, PITCH, YAW, OMEGA, PHI, KAPPA>>

AngleOf(c, i) ==
    CASE c = ROLL  -> 10 + i [] c = PITCH -> 20 + i [] c = YAW   -> 30 + i
      [] c = OMEGA -> 40 + i [] c = PHI   -> 50 + i [] c = KAPPA -> 60 + i

\* consts.REQUIRED_FILE_COLS_GEOGRAPHIC
REQUIRED_FILE_COLS_GEOGRAPHIC == <<TS, FN, LAT, LON, ALT>> \o AngleCols

\* consts.REQUIRED_FILE_COLS_CARTESIAN
REQUIRED_FILE_COLS_CARTESIAN == <<TS, FN, CX, CY, CZ>> \o AngleCols

DatasetKinds == {"dd", "dms", "cart", "both", "dms_bad"}

KindColumns(kind) ==
    CASE kind = "cart" -> REQUIRED_FILE_COLS_CARTESIAN
      [] kind = "both" -> REQUIRED_FILE_COLS_GEOGRAPHIC \o <<CX, CY, CZ>>
      [] OTHER         -> REQUIRED_FILE_COLS_GEOGRAPHIC

KindDtype(kind, c) ==
    IF c \in {TS, FN} THEN "String"
    ELSE IF c \in {LAT, LON} /\ kind \in {"dms", "both", "dms_bad"} THEN "String"
    ELSE "Float64"

KindValue(kind, c, i, n) ==
    CASE c = TS  -> TimestampOf(i)
      [] c = FN  -> FilenameOf(i)
      [] c = LAT -> IF kind = "dd" THEN LatDdOf(i)
                    ELSE IF kind = "dms_bad" /\ i = n THEN LatDmsMalformed
                    ELSE LatDmsOf(i)
      [] c = LON -> IF kind = "dd" THEN LonDdOf(i) ELSE LonDmsOf(i)
      [] c = ALT -> AltOf(i)
      [] c = CX  -> 1000 * i + 1
      [] c = CY  -> 2000 * i + 2
      [] c = CZ  -> 3000 * i + 3
      [] OTHER   -> AngleOf(c, i)

\* the table pl.read_csv yields for an upload of the given kind with n rows
Dataset(kind, n) ==
    LET cols == KindColumns(kind)
        cs   == {cols[j] : j \in DOMAIN cols}
    IN  [height  |-> n,
         columns |-> cols,
         dtype   |-> [c \in cs |-> KindDtype(kind, c)],
         data    |-> [c \in cs |-> [i \in 1..n |-> KindValue(kind, c, i, n)]]]

Datasets == {Dataset(kind, n) : kind \in DatasetKinds, n \in 0..MaxRows}

\* ------------------------------------------------------ CoordinateProcessor
DetectDmsFirst(df) ==
    IF /\ HasCol(df, LAT)
       /\ df.dtype[LAT] = "String"
       /\ \E i \in 1..df.height : StrContains(df.data[LAT][i], <<"deg">>)
    THEN "dms"
    ELSE IF HasCol(df, CX) /\ HasCol(df, CY) /\ HasCol(df, CZ) THEN "cart"
    ELSE "dd"

\* dms only when every latitude value has the degree sign
DetectDmsEveryRow(df) ==
    IF HasCol(df, CX) /\ HasCol(df, CY) /\ HasCol(df, CZ) THEN "cart"
    ELSE IF /\ HasCol(df, LAT)
            /\ df.dtype[LAT] = "String"
            /\ \A i \in 1..df.height : StrContains(df.data[LAT][i], <<"deg">>)
    THEN "dms"
    ELSE "dd"

\* CoordinateProcessor.detect_coord_type
detect_coord_type(df) ==
    IF HasCol(df, CX) /\ HasCol(df, CY) /\ HasCol(df, CZ) THEN "cart"
    ELSE IF /\ HasCol(df, LAT)
            /\ df.dtype[LAT] = "String"
            /\ \E i \in 1..df.height : StrContains(df.data[LAT][i], <<"deg">>)
    THEN "dms"
    ELSE "dd"

\* pl.col(c).map_elements(dms_to_decimal, return_dtype=pl.Float64): the first
\* element that fails decides the error; a float element is not subscriptable.
MapDms(df, c) ==
    IF ~HasCol(df, c) THEN Raise("ColumnNotFoundError")
    ELSE IF df.dtype[c] # "String"
         THEN IF df.height = 0 THEN [ok |-> TRUE, vals |-> <<>>] ELSE Raise("TypeError")
    ELSE Bind([i \in 1..df.height |-> dms_to_decimal(df.data[c][i])], LAMBDA conv :
            IF \E i \in 1..df.height : ~conv[i].ok
            THEN conv[CHOOSE k \in 1..df.height :
                        ~conv[k].ok /\ \A j \in 1..(k - 1) : conv[j].ok]
            ELSE [ok |-> TRUE, vals |-> [i \in 1..df.height |-> conv[i].v]])

\* textual latitudes and longitudes converted whatever coord_type says
NormalizeDmsByDtype(df, coord_type) ==
    IF ~(HasCol(df, LAT) /\ df.dtype[LAT] = "String") THEN [ok |-> TRUE, df |-> df]
    ELSE Bind(<<MapDms(df, LAT), MapDms(df, LON)>>, LAMBDA m :
            IF ~m[1].ok THEN m[1]
            ELSE IF ~m[2].ok THEN m[2]
            ELSE [ok |-> TRUE,
                  df |-> WithColumn(WithColumn(df, LAT, "Float64", m[1].vals),
                                    LON, "Float64", m[2].vals)])

\* services.py 57-65
NormalizeDms(df, coord_type) ==
    IF coord_type # "dms" THEN [ok |-> TRUE, df |-> df]
    ELSE Bind(<<MapDms(df, LAT), MapDms(df, LON)>>, LAMBDA m :
            IF ~m[1].ok THEN m[1]
            ELSE IF ~m[2].ok THEN m[2]
            ELSE [ok |-> TRUE,
                  df |-> WithColumn(WithColumn(df, LAT, "Float64", m[1].vals),
                                    LON, "Float64", m[2].vals)])

IIQ == <<".", "i", "i", "q">>
RGBI_SUFFIX == <<"_", "r", "g", "b", "i", ".", "t", "i", "f">>
RGB_SUFFIX  == <<"_", "c", "a", "l", ".", "t", "i", "f">>

\* the derived name overwrites Filename, as main.py's convert_coords did
AddFilenamesInPlace(df) ==
    IF ~HasCol(df, FN) THEN Raise("ColumnNotFoundError")
    ELSE IF df.dtype[FN] # "String" THEN Raise("SchemaError")
    ELSE [ok |-> TRUE,
          df |-> WithColumn(
                   WithColumn(
                     WithColumn(df, FN, "String",
                       [i \in 1..df.height |-> StrReplaceAll(df.data[FN][i], IIQ, RGBI_SUFFIX)]),
                     RGBI, "String",
                     [i \in 1..df.height |-> StrReplaceAll(df.data[FN][i], IIQ, RGBI_SUFFIX)]),
                   RGB, "String",
                   [i \in 1..df.height |-> StrReplaceAll(df.data[FN][i], IIQ, RGB_SUFFIX)])]

\* the two suffixes exchanged
AddFilenamesSwapped(df) ==
    IF ~HasCol(df, FN) THEN Raise("ColumnNotFoundError")
    ELSE IF df.dtype[FN] # "String" THEN Raise("SchemaError")
    ELSE [ok |-> TRUE,
          df |-> WithColumn(
                   WithColumn(df, RGBI, "String",
                       [i \in 1..df.height |-> StrReplaceAll(df.data[FN][i], IIQ, RGB_SUFFIX)]),
                   RGB, "String",
                   [i \in 1..df.height |-> StrReplaceAll(df.data[FN][i], IIQ, RGBI_SUFFIX)])]

\* services.py 67-75
AddFilenames(df) ==
    IF ~HasCol(df, FN) THEN Raise("ColumnNotFoundError")
    ELSE IF df.dtype[FN] # "String" THEN Raise("SchemaError")
    ELSE [ok |-> TRUE,
          df |-> WithColumn(
                   WithColumn(df, RGBI, "String",
                       [i \in 1..df.height |-> StrReplaceAll(df.data[FN][i], IIQ, RGBI_SUFFIX)]),
                   RGB, "String",
                   [i \in 1..df.height |-> StrReplaceAll(df.data[FN][i], IIQ, RGB_SUFFIX)])]

\* CoordinateProcessor.preprocess_dataframe
preprocess_dataframe(df, coord_type) ==
    Bind(NormalizeDms(df, coord_type), LAMBDA n :
        IF ~n.ok THEN n ELSE AddFilenames(n.df))

\* geographic triples with the latitude first
ExtractLatFirst(df, coord_type) ==
    LET cs == IF coord_type = "cart" THEN <<CX, CY, CZ>> ELSE <<LAT, LON, ALT>>
    IN  IF \E j \in 1..3 : ~HasCol(df, cs[j]) THEN Raise("ColumnNotFoundError")
        ELSE [ok |-> TRUE,
              coordinates |-> [i \in 1..df.height |->
                                 <<df.data[cs[1]][i], df.data[cs[2]][i], df.data[cs[3]][i]>>],
              numeric |-> \A j \in 1..3 : df.dtype[cs[j]] = "Float64"]

\* CoordinateProcessor.extract_coordinates; numeric tells whether the three
\* columns read hold floats (a Python value carries its type).
extract_coordinates(df, coord_type) ==
    LET cs == IF coord_type = "cart" THEN <<CX, CY, CZ>> ELSE <<LON, LAT, ALT>>
    IN  IF \E j \in 1..3 : ~HasCol(df, cs[j]) THEN Raise("ColumnNotFoundError")
        ELSE [ok |-> TRUE,
              coordinates |-> [i \in 1..df.height |->
                                 <<df.data[cs[1]][i], df.data[cs[2]][i], df.data[cs[3]][i]>>],
              numeric |-> \A j \in 1..3 : df.dtype[cs[j]] = "Float64"]

\* ------------------------------------------------------------- models.py
\* TransformationParameters; enum members are written by their names.  LOCAL
\* stands for a CoordType member that is neither GEOG, CART nor a UTM zone.
Params(s_ref, s_coords, t_ref, t_coords) ==
    [s_ref_frame |-> s_ref, s_coords |-> s_coords, s_vd |-> "WGS84", s_epoch |-> 2020,
     t_ref_frame |-> t_ref, t_coords |-> t_coords, t_vd |-> "CGG2013A", t_epoch |-> 2002]

ParamsPool ==
    {Params("WGS84", "GEOG", "NAD83CSRS", "UTM10"),
     Params("ITRF14", "GEOG", "NAD83CSRS", "CART"),
     Params("NAD83CSRS", "CART", "WGS84", "GEOG"),
     Params("WGS84", "GEOG", "ITRF14", "LOCAL")}

\* TransformationParameters.to_csrspy_kwargs
to_csrspy_kwargs(p) ==
    [s_ref_frame |-> p.s_ref_frame, s_coords |-> p.s_coords, s_vd |-> p.s_vd,
     s_epoch |-> p.s_epoch, t_ref_frame |-> p.t_ref_frame, t_coords |-> p.t_coords,
     t_vd |-> p.t_vd, t_epoch |-> p.t_epoch]

\* the index named is that of the last offending element
CoordinateDataLastOffender(coord_type, coordinates) ==
    IF coordinates = <<>> THEN [ok |-> FALSE, err |-> "ValueError", msg |-> "empty"]
    ELSE IF \E i \in 1..Len(coordinates) : Len(coordinates[i]) # 3
    THEN [ok |-> FALSE, err |-> "ValueError", msg |-> "3 values",
          index |-> (CHOOSE i \in 1..Len(coordinates) :
                        /\ Len(coordinates[i]) # 3
                        /\ \A j \in (i + 1)..Len(coordinates) : Len(coordinates[j]) = 3) - 1]
    ELSE [ok |-> TRUE, v |-> [coord_type |-> coord_type, coordinates |-> coordinates]]

\* an empty coordinates list accepted
CoordinateDataAllowingEmpty(coord_type, coordinates) ==
    IF \E i \in 1..Len(coordinates) : Len(coordinates[i]) # 3
    THEN [ok |-> FALSE, err |-> "ValueError", msg |-> "3 values",
          index |-> (CHOOSE i \in 1..Len(coordinates) :
                        /\ Len(coordinates[i]) # 3
                        /\ \A j \in 1..(i - 1) : Len(coordinates[j]) = 3) - 1]
    ELSE [ok |-> TRUE, v |-> [coord_type |-> coord_type, coordinates |-> coordinates]]

\* CoordinateData.__post_init__: the loop raises at the first element whose
\* length is not 3 and names its index, counted from 0 by enumerate
CoordinateData(coord_type, coordinates) ==
    IF coordinates = <<>> THEN [ok |-> FALSE, err |-> "ValueError", msg |-> "empty"]
    ELSE IF \E i \in 1..Len(coordinates) : Len(coordinates[i]) # 3
    THEN [ok |-> FALSE, err |-> "ValueError", msg |-> "3 values",
          index |-> (CHOOSE i \in 1..Len(coordinates) :
                        /\ Len(coordinates[i]) # 3
                        /\ \A j \in 1..(i - 1) : Len(coordinates[j]) = 3) - 1]
    ELSE [ok |-> TRUE, v |-> [coord_type |-> coord_type, coordinates |-> coordinates]]

\* last_coordinate taken from the head of the list
GetSummaryLastIsFirst(ti) ==
    IF ti.transformation_params = None THEN Raise("AttributeError")
    ELSE LET p == ti.transformation_params
             c == ti.coordinate_data.coordinates
         IN [ok |-> TRUE,
             v |-> [source_reference_frame |-> p.s_ref_frame,
                    source_coord_type      |-> p.s_coords,
                    source_vertical_datum  |-> p.s_vd,
                    source_epoch           |-> p.s_epoch,
                    target_reference_frame |-> p.t_ref_frame,
                    target_coord_type      |-> p.t_coords,
                    target_vertical_datum  |-> p.t_vd,
                    target_epoch           |-> p.t_epoch,
                    coordinate_type        |-> ti.coordinate_data.coord_type,
                    num_coordinates        |-> Len(c),
                    first_coordinate       |-> IF c # <<>> THEN c[1] ELSE <<>>,
                    last_coordinate        |-> IF c # <<>> THEN c[1] ELSE <<>>]]

\* TransformationInput.get_summary
get_summary(ti) ==
    IF ti.transformation_params = None THEN Raise("AttributeError")
    ELSE LET p == ti.transformation_params
             c == ti.coordinate_data.coordinates
         IN [ok |-> TRUE,
             v |-> [source_reference_frame |-> p.s_ref_frame,
                    source_coord_type      |-> p.s_coords,
                    source_vertical_datum  |-> p.s_vd,
                    source_epoch           |-> p.s_epoch,
                    target_reference_frame |-> p.t_ref_frame,
                    target_coord_type      |-> p.t_coords,
                    target_vertical_datum  |-> p.t_vd,
                    target_epoch           |-> p.t_epoch,
                    coordinate_type        |-> ti.coordinate_data.coord_type,
                    num_coordinates        |-> Len(c),
                    first_coordinate       |-> IF c # <<>> THEN c[1] ELSE <<>>,
                    last_coordinate        |-> IF c # <<>> THEN c[Len(c)] ELSE <<>>]]

\* --------------------------------------------------- external collaborators
\* csrspy.CSRSTransformer is opaque.  ext.mode says what this run's transformer
\* does: "same" returns one triple per input triple, "fewer" drops the last,
\* "more" appends one, "one" returns the first only, "raise" raises when
\* called, "ctor_raise" raises when constructed.  ext.f is the point map.
ExtPool ==
    {[mode |-> "same", f |-> "id"], [mode |-> "same", f |-> "shift"],
     [mode |-> "fewer", f |-> "shift"], [mode |-> "more", f |-> "shift"],
     [mode |-> "one", f |-> "shift"], [mode |-> "raise", f |-> "shift"],
     [mode |-> "ctor_raise", f |-> "shift"]}

NoExt == [mode |-> "unused", f |-> "id"]

PointMap(f, t) == IF f = "id" THEN t ELSE <<t[1] + 1000000, t[2] + 2000000, t[3] + 3000000>>

\* transformer(coordinates), materialised by list()
ExtTransform(ext, coordinates, numeric) ==
    LET n == Len(coordinates)
        mapped == [i \in 1..n |-> PointMap(ext.f, coordinates[i])]
    IN  IF ext.mode = "raise" \/ ~numeric THEN Raise("TransformError")
        ELSE [ok |-> TRUE,
              v |-> CASE ext.mode = "fewer" -> SubSeq(mapped, 1, IF n = 0 THEN 0 ELSE n - 1)
                      [] ext.mode = "more"  -> Append(mapped, <<7, 8, 9>>)
                      [] ext.mode = "one"   -> SubSeq(mapped, 1, IF n = 0 THEN 0 ELSE 1)
                      [] OTHER              -> mapped]

\* ------------------------------------------------- TransformationService
\* services.py 208-220, 226-239, 245-258: the three select() lists
GeogSchemaAnglesSwapped == <<TS, FN, LAT, LON, ALT, OMEGA, PHI, KAPPA, ROLL, PITCH, YAW>>

GeogSchema == <<TS, FN, LAT, LON, ALT, ROLL, PITCH, YAW, OMEGA, PHI, KAPPA>>

CartSchemaKeepingFilename == <<TS, FN, CX, CY, CZ, OMEGA, PHI, KAPPA, ROLL, PITCH, YAW>>

CartSchema == <<TS, RGBI, RGB, CX, CY, CZ, OMEGA, PHI, KAPPA, ROLL, PITCH, YAW>>

ProjSchema == <<TS, RGBI, RGB, EAST, NORTH, ALTP, OMEGA, PHI, KAPPA, ROLL, PITCH, YAW>>

\* pl.col("converted").list.get(k), k counted from 0
ListGet(df, k) == [i \in 1..df.height |-> df.data[CONV][i][k + 1]]

\* df.with_columns(pl.Series("converted", transformed_coords)): a Series as long
\* as the frame is added as it is and any other length is a ShapeError, except
\* that a Series of length 1 is, depending on the polars build, either
\* repeated to the height of the frame or rejected like the others.
AddConverted(df, transformed_coords, unit_broadcast) ==
    IF Len(transformed_coords) = df.height
    THEN [ok |-> TRUE, df |-> WithColumn(df, CONV, "List", transformed_coords)]
    ELSE IF Len(transformed_coords) = 1 /\ unit_broadcast
    THEN [ok |-> TRUE,
          df |-> WithColumn(df, CONV, "List", [i \in 1..df.height |-> transformed_coords[1]])]
    ELSE Raise("ShapeError")

\* the geographic output written in the order of the triple, without the
\* swap back
ReshapeInTripleOrder(df, target_coord_type) ==
    Bind(df, LAMBDA d :
        IF target_coord_type = "GEOG"
        THEN Select(WithColumn(WithColumn(WithColumn(d,
                        LAT, "Float64", ListGet(d, 0)),
                        LON, "Float64", ListGet(d, 1)),
                        ALT, "Float64", ListGet(d, 2)), GeogSchema)
        ELSE IF target_coord_type = "CART"
        THEN Select(WithColumn(WithColumn(WithColumn(d,
                        CX, "Float64", ListGet(d, 0)),
                        CY, "Float64", ListGet(d, 1)),
                        CZ, "Float64", ListGet(d, 2)), CartSchema)
        ELSE Select(WithColumn(WithColumn(WithColumn(d,
                        EAST, "Float64", ListGet(d, 0)),
                        NORTH, "Float64", ListGet(d, 1)),
                        ALTP, "Float64", ListGet(d, 2)), ProjSchema))

\* services.py 203-258: the reshape by target type
Reshape(df, target_coord_type) ==
    Bind(df, LAMBDA d :
        IF target_coord_type = "GEOG"
        THEN Select(WithColumn(WithColumn(WithColumn(d,
                        LAT, "Float64", ListGet(d, 1)),
                        LON, "Float64", ListGet(d, 0)),
                        ALT, "Float64", ListGet(d, 2)), GeogSchema)
        ELSE IF target_coord_type = "CART"
        THEN Select(WithColumn(WithColumn(WithColumn(d,
                        CX, "Float64", ListGet(d, 0)),
                        CY, "Float64", ListGet(d, 1)),
                        CZ, "Float64", ListGet(d, 2)), CartSchema)
        ELSE Select(WithColumn(WithColumn(WithColumn(d,
                        EAST, "Float64", ListGet(d, 0)),
                        NORTH, "Float64", ListGet(d, 1)),
                        ALTP, "Float64", ListGet(d, 2)), ProjSchema))

\* TransformationService._apply_transformed_coordinates
apply_transformed_coordinates(df, transformed_coords, target_coord_type, original_coord_type, unit_broadcast) ==
    Bind(AddConverted(df, transformed_coords, unit_broadcast), LAMBDA w :
        IF ~w.ok THEN w
        ELSE Reshape(Drop(w.df, IF original_coord_type = "cart"
                                THEN {CX, CY, CZ} ELSE {LAT, LON, ALT}),
                     target_coord_type))

StoreAlways(last, enable_insp, ti) == ti

StoreOnce(last, enable_insp, ti) ==
    IF enable_insp /\ last = None THEN ti ELSE last

\* services.py 143-148: the value of self.last_transformation_input afterwards
StoreInspection(last, enable_insp, ti) ==
    IF enable_insp THEN ti ELSE last

\* TransformationService.inspect_transformation_input
inspect_transformation_input(last) ==
    IF last = None THEN [ok |-> TRUE, v |-> None] ELSE get_summary(last)

\* the transformer called once per row
InvokePerRow(processed_df, coordinates, numeric, kwargs, coord_type, ext, unit_broadcast, last, events) ==
    Bind(ExtTransform(ext, coordinates, numeric), LAMBDA t :
        [ret    |-> IF ~t.ok THEN t
                    ELSE apply_transformed_coordinates(processed_df, t.v, kwargs.t_coords,
                                                       coord_type, unit_broadcast),
         last   |-> last,
         events |-> events \o [i \in 1..Len(coordinates) |->
                                [e |-> "transform", points |-> <<coordinates[i]>>,
                                 returned |-> ExtTransform(ext, <<coordinates[i]>>, numeric)]]])

\* services.py 168-180: the call of the transformer and the reshape
InvokeTransformer(processed_df, coordinates, numeric, kwargs, coord_type, ext, unit_broadcast, last, events) ==
    Bind(ExtTransform(ext, coordinates, numeric), LAMBDA t :
        [ret    |-> IF ~t.ok THEN t
                    ELSE apply_transformed_coordinates(processed_df, t.v, kwargs.t_coords,
                                                       coord_type, unit_broadcast),
         last   |-> last,
         events |-> Append(events, [e |-> "transform", points |-> coordinates,
                                    returned |-> t])])

\* services.py 154-180: from the construction of the transformer on; the
\* transformer exposes the t_coords it was constructed with
RunTransformer(processed_df, coordinates, numeric, params, coord_type, ext, unit_broadcast, last, events) ==
    IF params = None
    THEN [ret |-> Raise("AttributeError"), last |-> last, events |-> events]
    ELSE IF ext.mode = "ctor_raise"
    THEN [ret |-> Raise("TransformerError"), last |-> last,
          events |-> Append(events, [e |-> "construct", kwargs |-> to_csrspy_kwargs(params)])]
    ELSE InvokeTransformer(processed_df, coordinates, numeric, to_csrspy_kwargs(params),
                           coord_type, ext, unit_broadcast, last,
                           Append(events, [e |-> "construct",
                                           kwargs |-> to_csrspy_kwargs(params)]))

\* the record kept only when the run succeeds
TransformBranchStoreOnSuccess(last, enable_insp, df, processed_df, params, coord_type, ext, unit_broadcast, ex, events) ==
    IF ~ex.ok THEN [ret |-> ex, last |-> last, events |-> events]
    ELSE Bind(CoordinateData(coord_type, ex.coordinates), LAMBDA cd :
        IF ~cd.ok THEN [ret |-> cd, last |-> last, events |-> events]
        ELSE Bind(StoreInspection(last, enable_insp,
                                  [transformation_params |-> params,
                                   coordinate_data |-> cd.v,
                                   original_df |-> df]),
             LAMBDA stored :
                Bind(RunTransformer(processed_df, ex.coordinates, ex.numeric, params,
                                    coord_type, ext, unit_broadcast, stored, events),
                     LAMBDA r : [ret |-> r.ret,
                                 last |-> IF r.ret.ok THEN stored ELSE last,
                                 events |-> r.events])))

\* services.py 138-180: the transforming branch, given the table extracted from
TransformBranch(last, enable_insp, df, processed_df, params, coord_type, ext, unit_broadcast, ex, events) ==
    IF ~ex.ok THEN [ret |-> ex, last |-> last, events |-> events]
    ELSE Bind(CoordinateData(coord_type, ex.coordinates), LAMBDA cd :
        IF ~cd.ok THEN [ret |-> cd, last |-> last, events |-> events]
        ELSE Bind(StoreInspection(last, enable_insp,
                                  [transformation_params |-> params,
                                   coordinate_data |-> cd.v,
                                   original_df |-> df]),
             LAMBDA stored :
                IF enable_insp /\ ~get_summary(stored).ok
                THEN [ret |-> get_summary(stored), last |-> stored, events |-> events]
                ELSE RunTransformer(processed_df, ex.coordinates, ex.numeric, params,
                                    coord_type, ext, unit_broadcast, stored, events)))

\* the grid files synced after the early return, by transforming runs only
TransformSyncingLate(last, enable_insp, df, params, coord_type_arg, should_transform, ext, unit_broadcast) ==
    Bind(IF coord_type_arg = NoCoordType THEN detect_coord_type(df) ELSE coord_type_arg,
    LAMBDA coord_type :
        Bind(preprocess_dataframe(df, coord_type), LAMBDA processed :
            IF ~processed.ok \/ ~should_transform
            THEN [ret |-> processed, last |-> last, events |-> <<>>]
            ELSE Bind(extract_coordinates(processed.df, coord_type), LAMBDA ex :
                    TransformBranch(last, enable_insp, df, processed.df, params,
                                    coord_type, ext, unit_broadcast, ex,
                                    <<[e |-> "sync"]>>))))

\* TransformationService.transform_coordinates: the value returned or the
\* error raised (ret), self.last_transformation_input afterwards (last) and the
\* calls made to the external collaborators, in order (events).
transform_coordinates(last, enable_insp, df, params, coord_type_arg, should_transform, ext, unit_broadcast) ==
    Bind(IF coord_type_arg = NoCoordType THEN detect_coord_type(df) ELSE coord_type_arg,
    LAMBDA coord_type :
        Bind(preprocess_dataframe(df, coord_type), LAMBDA processed :
            IF ~processed.ok \/ ~should_transform
            THEN [ret |-> processed, last |-> last, events |-> <<[e |-> "sync"]>>]
            ELSE Bind(extract_coordinates(processed.df, coord_type), LAMBDA ex :
                    TransformBranch(last, enable_insp, df, processed.df, params,
                                    coord_type, ext, unit_broadcast, ex,
                                    <<[e |-> "sync"]>>))))

\* ----------------------------------------------------------------- lib.py
\* lib.py 63-67, 78-82: with_columns(pl.struct(...).map_batches(f).alias(
\* "converted")), f returning pl.Series(list(transformer(triples))): a Series
\* as long as the frame is taken as it is (the Series of an empty list has
\* dtype Null), a Series of length 1 is broadcast or rejected depending on the
\* polars build, any other length is a ShapeError.
LibAddConverted(df, returned, unit_broadcast) ==
    IF Len(returned) = df.height
    THEN [ok |-> TRUE,
          df |-> WithColumn(df, CONV, IF returned = <<>> THEN "Null" ELSE "List", returned)]
    ELSE IF Len(returned) = 1 /\ unit_broadcast
    THEN [ok |-> TRUE, df |-> WithColumn(df, CONV, "List", [i \in 1..df.height |-> returned[1]])]
    ELSE Raise("ShapeError")

\* lib.py 84-139: the reshape by transformer.t_coords; list.get on a column
\* of dtype Null yields nulls or is a SchemaError, depending on the polars
\* build (null_list_get)
LibReshape(df, t_coords, null_list_get) ==
    Bind(df, LAMBDA d :
        IF d.dtype[CONV] = "Null" /\ ~null_list_get THEN Raise("SchemaError")
        ELSE IF t_coords = "GEOG"
        THEN Select(WithColumn(WithColumn(WithColumn(d,
                        LAT, "Float64", ListGet(d, 1)),
                        LON, "Float64", ListGet(d, 0)),
                        ALT, "Float64", ListGet(d, 2)),
                    <<TS, FN, LAT, LON, ALT, ROLL, PITCH, YAW, OMEGA, PHI, KAPPA>>)
        ELSE IF t_coords = "CART"
        THEN Select(WithColumn(WithColumn(WithColumn(d,
                        CX, "Float64", ListGet(d, 0)),
                        CY, "Float64", ListGet(d, 1)),
                        CZ, "Float64", ListGet(d, 2)),
                    <<TS, RGBI, RGB, CX, CY, CZ, OMEGA, PHI, KAPPA, ROLL, PITCH, YAW>>)
        ELSE Select(WithColumn(WithColumn(WithColumn(d,
                        EAST, "Float64", ListGet(d, 0)),
                        NORTH, "Float64", ListGet(d, 1)),
                        ALTP, "Float64", ListGet(d, 2)),
                    <<TS, RGBI, RGB, EAST, NORTH, ALTP, OMEGA, PHI, KAPPA, ROLL, PITCH, YAW>>))

\* lib.py 51-141: from the construction of the transformer on
LibTransform(df, coord_type, kwargs, ext, unit_broadcast, null_list_get, events) ==
    LET cs == IF coord_type = "cart" THEN <<CX, CY, CZ>> ELSE <<LON, LAT, ALT>>
        triples == [i \in 1..df.height |->
                      <<df.data[cs[1]][i], df.data[cs[2]][i], df.data[cs[3]][i]>>]
        numeric == \A j \in 1..3 : df.dtype[cs[j]] = "Float64"
    IN  IF ext.mode = "ctor_raise" THEN [ret |-> Raise("TransformerError"), events |-> events]
        ELSE IF \E j \in 1..3 : ~HasCol(df, cs[j])
        THEN [ret |-> Raise("ColumnNotFoundError"), events |-> events]
        ELSE Bind(ExtTransform(ext, triples, numeric), LAMBDA t :
            [ret |-> IF ~t.ok THEN t
                     ELSE Bind(LibAddConverted(df, t.v, unit_broadcast), LAMBDA w :
                            IF ~w.ok THEN w
                            ELSE LibReshape(Drop(w.df, {cs[1], cs[2], cs[3]}),
                                            kwargs.t_coords, null_list_get)),
             events |-> Append(events, [e |-> "transform", points |-> triples,
                                        returned |-> t])])

\* lib.convert_coords(df, coord_type, should_transform, **kwargs): the value
\* returned or the error raised (ret) and the calls made to the external
\* collaborators, in order (events); lines 29-46 are those of
\* preprocess_dataframe
convert_coords(df, coord_type, should_transform, kwargs, ext, unit_broadcast, null_list_get) ==
    Bind(NormalizeDms(df, coord_type), LAMBDA n :
        IF ~n.ok THEN [ret |-> n, events |-> <<[e |-> "sync"]>>]
        ELSE Bind(AddFilenames(n.df), LAMBDA a :
            IF ~a.ok \/ ~should_transform
            THEN [ret |-> a, events |-> <<[e |-> "sync"]>>]
            ELSE LibTransform(a.df, coord_type, kwargs, ext, unit_broadcast, null_list_get,
                              <<[e |-> "sync"], [e |-> "construct", kwargs |-> kwargs]>>)))

\* ------------------------------------------------------------ the service
VARIABLES
    enable_inspection,          \* TransformationService.enable_inspection
    last_transformation_input,  \* TransformationService.last_transformation_input
    unit_broadcast,             \* whether the polars build repeats a unit-length Series
    call,                       \* the arguments of the most recent call
    result,                     \* what the most recent call returned or raised
    events                      \* the external calls the most recent call made

vars == <<enable_inspection, last_transformation_input, unit_broadcast, call, result, events>>

Call(df, params, coord_type, should_transform, ext) ==
    LET r == transform_coordinates(last_transformation_input, enable_inspection, df,
                                   params, coord_type, should_transform, ext, unit_broadcast)
    IN  /\ call' = [df |-> df, transformation_params |-> params, coord_type |-> coord_type,
                    should_transform |-> should_transform, ext |-> ext]
        /\ result' = r.ret
        /\ last_transformation_input' = r.last
        /\ events' = r.events
        /\ UNCHANGED <<enable_inspection, unit_broadcast>>

\* ---- Spec: one service instance serving any sequence of calls
\* TransformationService.__init__
Init ==
    /\ enable_inspection \in BOOLEAN
    /\ last_transformation_input = None
    /\ unit_broadcast \in BOOLEAN
    /\ call = None
    /\ result = None
    /\ events = <<>>

ServiceDatasets == {Dataset(kind, n) : kind \in {"dd", "cart"}, n \in 0..MaxRows}

ServiceParams ==
    {Params("WGS84", "GEOG", "NAD83CSRS", "UTM10"), Params("NAD83CSRS", "CART", "WGS84", "GEOG")}

ServiceExts ==
    {[mode |-> "same", f |-> "shift"], [mode |-> "one", f |-> "shift"],
     [mode |-> "raise", f |-> "shift"]}

\* service.transform_coordinates(df, params, should_transform=True)
Transform ==
    \E df \in ServiceDatasets, params \in ServiceParams, ext \in ServiceExts :
        Call(df, params, NoCoordType, TRUE, ext)

\* service.transform_coordinates(df, params, should_transform=False)
Skip ==
    \E df \in ServiceDatasets, params \in ServiceParams \cup {None} :
        Call(df, params, NoCoordType, FALSE, NoExt)

Next == Transform \/ Skip

Spec == Init /\ [][Next]_vars

\* ---- SpecRun: one call, its arguments and the state of the service before
\* it drawn from wider sets
CoordTypeArgs == {NoCoordType, "dd", "dms", "cart"}

RunCalls ==
    {[df |-> df, transformation_params |-> params, coord_type |-> coord_type,
      should_transform |-> TRUE, ext |-> ext] :
        df \in Datasets, params \in ParamsPool \cup {None},
        coord_type \in CoordTypeArgs, ext \in ExtPool}
    \cup
    {[df |-> df, transformation_params |-> params, coord_type |-> coord_type,
      should_transform |-> FALSE, ext |-> NoExt] :
        df \in Datasets, params \in ParamsPool \cup {None}, coord_type \in CoordTypeArgs}

\* what an earlier transforming run of an inspecting service has stored
PriorInput ==
    transform_coordinates(None, TRUE, Dataset("dd", 1),
                          Params("ITRF14", "GEOG", "NAD83CSRS", "CART"), NoCoordType, TRUE,
                          [mode |-> "same", f |-> "id"], FALSE).last

InitRun ==
    /\ enable_inspection \in BOOLEAN
    /\ last_transformation_input \in (IF enable_inspection THEN {None, PriorInput} ELSE {None})
    /\ unit_broadcast \in BOOLEAN
    /\ call \in RunCalls
    /\ result = None
    /\ events = <<>>

\* service.transform_coordinates(**call)
Run ==
    /\ result = None
    /\ Call(call.df, call.transformation_params, call.coord_type,
            call.should_transform, call.ext)

NextRun == Run

SpecRun == InitRun /\ [][NextRun]_vars

\* ---- SpecDetect: detection applied to tables of any column set
LatKinds == {"absent", "float", "dms", "text", "mixed"}

\* a table with the cartesian columns in xyz and a latitude column of the
\* given kind: absent, float, DMS strings, strings without a degree sign, or
\* strings of which only the even rows carry a degree sign
DetectDataset(xyz, lat, n) ==
    LET cols == <<TS, FN>>
                \o (IF lat = "absent" THEN <<>> ELSE <<LAT, LON, ALT>>)
                \o SelectSeq(<<CX, CY, CZ>>, LAMBDA c : c \in xyz)
                \o AngleCols
        cs   == {cols[j] : j \in DOMAIN cols}
        kind == IF lat = "float" THEN "dd" ELSE "dms"
    IN  [height  |-> n,
         columns |-> cols,
         dtype   |-> [c \in cs |-> KindDtype(kind, c)],
         data    |-> [c \in cs |-> [i \in 1..n |->
                        IF c = LAT /\ (lat = "text" \/ (lat = "mixed" /\ i % 2 = 1))
                        THEN LatDmsMalformed
                        ELSE KindValue(kind, c, i, n)]]]

\* the same table with its longitude column as it is, removed, and holding
\* DMS strings whatever the latitude column holds
LonVariants(df) ==
    IF ~HasCol(df, LON) THEN {df}
    ELSE {df, Drop(df, {LON}),
          WithColumn(df, LON, "String", [i \in 1..df.height |-> LonDmsOf(i)])}

DetectDatasets ==
    UNION {LonVariants(DetectDataset(xyz, lat, n)) :
             xyz \in SUBSET {CX, CY, CZ}, lat \in LatKinds, n \in 0..MaxRows}

InitDetect ==
    /\ enable_inspection = TRUE
    /\ last_transformation_input = None
    /\ unit_broadcast = FALSE
    /\ call \in {[df |-> df] : df \in DetectDatasets}
    /\ result = None
    /\ events = <<>>

\* CoordinateProcessor.detect_coord_type(call.df)
Detect ==
    /\ result = None
    /\ result' = [coord_type |-> detect_coord_type(call.df)]
    /\ UNCHANGED <<enable_inspection, last_transformation_input, unit_broadcast, call, events>>

NextDetect == Detect

SpecDetect == InitDetect /\ [][NextDetect]_vars

\* ---- SpecUnit: one direct call of a unit, its arguments drawn from sets
\* the decimal numeral of a natural number, as a str
DecimalDigits == <<"0", "1", "2", "3", "4", "5", "6", "7", "8", "9">>

RECURSIVE Numeral(_)
Numeral(n) ==
    IF n < 10 THEN <<DecimalDigits[n + 1]>>
    ELSE Numeral(n \div 10) \o <<DecimalDigits[(n % 10) + 1]>>

\* <hemisphere><degrees>deg <minutes>' <seconds>"
DmsString(hem, d, m, sec) ==
    <<hem>> \o Numeral(d) \o <<"deg", " ">> \o Numeral(m) \o <<"'", " ">>
            \o Numeral(sec) \o <<"dq">>

Hemispheres == {"N", "S", "E", "W"}
DmsDegrees == {0, 5, 52, 123}
DmsMinutes == {0, 15, 30, 59}
DmsSeconds == {0, 7, 30, 45}

DmsCalls ==
    {[op |-> "dms_to_decimal", hem |-> h, deg |-> d, min |-> m, sec |-> sec,
      dms_str |-> DmsString(h, d, m, sec)] :
        h \in Hemispheres, d \in DmsDegrees, m \in DmsMinutes, sec \in DmsSeconds}

FilenamePool == {FilenameOf(1), FilenameOf(2), FilenameOf(3)}

\* the table of the given kind with the given values in its Filename column
WithFilenames(kind, names) ==
    Bind(Dataset(kind, Len(names)), LAMBDA d : WithColumn(d, FN, "String", names))

FilenameDatasets ==
    UNION {{WithFilenames(kind, names) : names \in [1..n -> FilenamePool]} :
             kind \in {"dd", "dms", "cart"}, n \in 0..MaxRows}

PreprocessCalls ==
    {[op |-> "preprocess_dataframe", df |-> df, coord_type |-> coord_type] :
        df \in FilenameDatasets \cup Datasets, coord_type \in {"dd", "dms", "cart"}}

\* tables as they reach extract_coordinates: uploads, and normalized uploads
NormalizedDatasets ==
    {r.df : r \in {n \in {preprocess_dataframe(df, detect_coord_type(df)) : df \in Datasets} :
                     n.ok}}

ExtractCalls ==
    {[op |-> "extract_coordinates", df |-> df, coord_type |-> coord_type] :
        df \in Datasets \cup NormalizedDatasets, coord_type \in {"dd", "dms", "cart"}}

\* the elements a coordinates list is made of: triples, a pair, a 4-tuple
\* and the empty tuple
CoordinatePool == {<<1, 2, 3>>, <<4, 5, 6>>, <<1, 2>>, <<1, 2, 3, 4>>, <<>>}

ConstructCalls ==
    {[op |-> "CoordinateData", coord_type |-> coord_type, coordinates |-> coordinates] :
        coord_type \in {"dd", "dms", "cart"},
        coordinates \in UNION {[1..n -> CoordinatePool] : n \in 0..MaxRows}}

\* FileValidationUI.validate_and_display_file: st.error shows the two lists
\* of missing columns and st.stop ends the script run
validate_and_display_file(df, required_cols_geo, required_cols_cart) ==
    LET missing_cols_geo  == {required_cols_geo[i] : i \in DOMAIN required_cols_geo} \ ColSet(df)
        missing_cols_cart == {required_cols_cart[i] : i \in DOMAIN required_cols_cart} \ ColSet(df)
    IN  IF missing_cols_geo # {} /\ missing_cols_cart # {}
        THEN [ok |-> FALSE, err |-> "StopException",
              error |-> [geographic |-> missing_cols_geo, cartesian |-> missing_cols_cart]]
        ELSE [ok |-> TRUE, v |-> TRUE]

\* the names consts.py binds at module level
ConstsNames == {"REQUIRED_FILE_COLS_GEOGRAPHIC", "REQUIRED_FILE_COLS_CARTESIAN",
                "VERTICAL_DATUM_OPTS", "REFERENCE_FRAME_OPTS", "COORD_TYPE_OPTS"}

\* the names app.py imports from consts
AppImports == {"REQUIRED_FILE_COLS", "VERTICAL_DATUM_OPTS", "REFERENCE_FRAME_OPTS",
               "COORD_TYPE_OPTS"}

\* app.py run on an upload: the import of a name consts.py does not bind
\* raises ImportError before the upload is read; otherwise the one list
\* required_file_cols is checked, st.error and st.stop on a missing column
AppUpload(df, required_file_cols) ==
    LET missing_cols == {required_file_cols[i] : i \in DOMAIN required_file_cols} \ ColSet(df)
    IN  IF ~(AppImports \subseteq ConstsNames) THEN Raise("ImportError")
        ELSE IF missing_cols # {}
        THEN [ok |-> FALSE, err |-> "StopException", error |-> missing_cols]
        ELSE [ok |-> TRUE, v |-> TRUE]

\* the columns an upload may lack
OptionalColumns == {TS, KAPPA, LAT, LON, ALT, CX, CY, CZ}

UploadedTables == {Drop(Dataset("both", 1), cs) : cs \in SUBSET OptionalColumns}

ValidateCalls ==
    {[op |-> "validate_and_display_file", df |-> df] : df \in UploadedTables}

UploadCalls == {[op |-> "app", df |-> df] : df \in UploadedTables}

\* list(CoordType): the members of csrspy.enums.CoordType in definition order
CoordTypeMembers ==
    <<"GEOG", "CART", "UTM3", "UTM4", "UTM5", "UTM6", "UTM7", "UTM8", "UTM9", "UTM10",
      "UTM11", "UTM12", "UTM13", "UTM14", "UTM15", "UTM16", "UTM17", "UTM18", "UTM19",
      "UTM20", "UTM21", "UTM22", "UTM23">>

\* consts.COORD_TYPE_OPTS
COORD_TYPE_OPTS == <<"Geographic", "Projected", "Cartesian">>

\* TransformationParametersUI.render_parameters, from the values of its
\* widgets; list(CoordType)[utm_zone - 1] counts from 0
render_parameters(prefix, ref_frame, coords, utm_zone, vertical_datum, epoch_value) ==
    LET coord_type == IF coords = "Projected" THEN CoordTypeMembers[utm_zone]
                      ELSE IF coords = "Cartesian" THEN "CART"
                      ELSE "GEOG"
    IN  IF prefix = "s"
        THEN [s_ref_frame |-> ref_frame[2], s_coords |-> coord_type,
              s_vd |-> vertical_datum[2], s_epoch |-> epoch_value]
        ELSE [t_ref_frame |-> ref_frame[2], t_coords |-> coord_type,
              t_vd |-> vertical_datum[2], t_epoch |-> epoch_value]

\* app._get_params, from the values of its widgets
get_params(prefix, ref_frame, coords, utm_zone, vertical_datum, epoch_value) ==
    LET coord_type == IF coords = "Projected" THEN CoordTypeMembers[utm_zone] ELSE "GEOG"
    IN  IF prefix = "s"
        THEN [s_ref_frame |-> ref_frame[2], s_coords |-> coord_type,
              s_vd |-> vertical_datum[2], s_epoch |-> epoch_value]
        ELSE [t_ref_frame |-> ref_frame[2], t_coords |-> coord_type,
              t_vd |-> vertical_datum[2], t_epoch |-> epoch_value]

\* the values the widgets can hold: the zone input holds 3..23, also while
\* it is disabled
WidgetValues ==
    [prefix : {"s", "t"},
     ref_frame : {<<"WGS84", "WGS84">>, <<"NAD83 (CSRS)", "NAD83CSRS">>},
     coords : {COORD_TYPE_OPTS[i] : i \in DOMAIN COORD_TYPE_OPTS},
     utm_zone : 3..23,
     vertical_datum : {<<"CGG2013a", "CGG2013A">>},
     epoch_value : {2010}]

RenderCalls == {[op |-> "render_parameters", w |-> w] : w \in WidgetValues}

GetParamsCalls == {[op |-> "_get_params", w |-> w] : w \in WidgetValues}

UnitCalls ==
    DmsCalls \cup PreprocessCalls \cup ExtractCalls \cup ConstructCalls
        \cup ValidateCalls \cup UploadCalls \cup RenderCalls \cup GetParamsCalls

InitUnit ==
    /\ enable_inspection = TRUE
    /\ last_transformation_input = None
    /\ unit_broadcast = FALSE
    /\ call \in UnitCalls
    /\ result = None
    /\ events = <<>>

\* CoordinateProcessor.dms_to_decimal(call.dms_str)
Parse ==
    /\ result = None
    /\ call.op = "dms_to_decimal"
    /\ result' = dms_to_decimal(call.dms_str)
    /\ UNCHANGED <<enable_inspection, last_transformation_input, unit_broadcast, call, events>>

\* CoordinateProcessor.preprocess_dataframe(call.df, call.coord_type)
Preprocess ==
    /\ result = None
    /\ call.op = "preprocess_dataframe"
    /\ result' = preprocess_dataframe(call.df, call.coord_type)
    /\ UNCHANGED <<enable_inspection, last_transformation_input, unit_broadcast, call, events>>

\* CoordinateProcessor.extract_coordinates(call.df, call.coord_type)
Extract ==
    /\ result = None
    /\ call.op = "extract_coordinates"
    /\ result' = extract_coordinates(call.df, call.coord_type)
    /\ UNCHANGED <<enable_inspection, last_transformation_input, unit_broadcast, call, events>>

\* CoordinateData(coord_type=call.coord_type, coordinates=call.coordinates)
Construct ==
    /\ result = None
    /\ call.op = "CoordinateData"
    /\ result' = CoordinateData(call.coord_type, call.coordinates)
    /\ UNCHANGED <<enable_inspection, last_transformation_input, unit_broadcast, call, events>>

\* FileValidationUI.validate_and_display_file(call.df, the two required lists)
Validate ==
    /\ result = None
    /\ call.op = "validate_and_display_file"
    /\ result' = validate_and_display_file(call.df, REQUIRED_FILE_COLS_GEOGRAPHIC,
                                            REQUIRED_FILE_COLS_CARTESIAN)
    /\ UNCHANGED <<enable_inspection, last_transformation_input, unit_broadcast, call, events>>

\* app.py run with call.df uploaded; main.py, where REQUIRED_FILE_COLS is
\* still bound, binds it to the geographic list
Upload ==
    /\ result = None
    /\ call.op = "app"
    /\ result' = AppUpload(call.df, REQUIRED_FILE_COLS_GEOGRAPHIC)
    /\ UNCHANGED <<enable_inspection, last_transformation_input, unit_broadcast, call, events>>

\* TransformationParametersUI.render_parameters(col, title, prefix)
Render ==
    /\ result = None
    /\ call.op = "render_parameters"
    /\ result' = [ok |-> TRUE,
                  v |-> render_parameters(call.w.prefix, call.w.ref_frame, call.w.coords,
                            call.w.utm_zone, call.w.vertical_datum, call.w.epoch_value)]
    /\ UNCHANGED <<enable_inspection, last_transformation_input, unit_broadcast, call, events>>

\* app._get_params(col, title, prefix)
RenderApp ==
    /\ result = None
    /\ call.op = "_get_params"
    /\ result' = [ok |-> TRUE,
                  v |-> get_params(call.w.prefix, call.w.ref_frame, call.w.coords,
                            call.w.utm_zone, call.w.vertical_datum, call.w.epoch_value)]
    /\ UNCHANGED <<enable_inspection, last_transformation_input, unit_broadcast, call, events>>

NextUnit ==
    Parse \/ Preprocess \/ Extract \/ Construct \/ Validate \/ Upload \/ Render \/ RenderApp

SpecUnit == InitUnit /\ [][NextUnit]_vars

\* ---- SpecMalformed: one call on a table of DMS strings of which one cell
\* is malformed
MalformedKinds == {"no_hemisphere", "no_hemisphere_short", "no_degree_delimiter",
                   "no_minute_delimiter", "no_seconds", "not_numeric", "empty"}

\* 12deg 2' 3", 1deg 2' 3", N1 2' 3", N1deg 2 3", N1deg 2', NXdeg 2' 3", and ""
MalformedDms(kind) ==
    CASE kind = "no_hemisphere"       -> <<"1", "2", "deg", " ", "2", "'", " ", "3", "dq">>
      [] kind = "no_hemisphere_short" -> <<"1", "deg", " ", "2", "'", " ", "3", "dq">>
      [] kind = "no_degree_delimiter" -> LatDmsMalformed
      [] kind = "no_minute_delimiter" -> <<"N", "1", "deg", " ", "2", " ", "3", "dq">>
      [] kind = "no_seconds"          -> <<"N", "1", "deg", " ", "2", "'">>
      [] kind = "not_numeric"         -> <<"N", "X", "deg", " ", "2", "'", " ", "3", "dq">>
      [] kind = "empty"               -> <<>>

\* a table of n rows of DMS strings whose cell (c, row) is malformed
MalformedDataset(kind, c, row, n) ==
    Bind(Dataset("dms", n), LAMBDA d :
        WithColumn(d, c, "String",
                   [i \in 1..n |-> IF i = row THEN MalformedDms(kind) ELSE d.data[c][i]]))

MalformedDatasets ==
    UNION {{MalformedDataset(kind, c, row, n) : row \in 1..n} :
             kind \in MalformedKinds, c \in {LAT, LON}, n \in 1..MaxRows}

MalformedCalls ==
    {[df |-> df, transformation_params |-> params, coord_type |-> coord_type,
      should_transform |-> TRUE, ext |-> ext] :
        df \in MalformedDatasets, params \in ParamsPool,
        coord_type \in {NoCoordType, "dms"},
        ext \in {[mode |-> "same", f |-> "id"], [mode |-> "same", f |-> "shift"]}}
    \cup
    {[df |-> df, transformation_params |-> params, coord_type |-> coord_type,
      should_transform |-> FALSE, ext |-> NoExt] :
        df \in MalformedDatasets, params \in ParamsPool \cup {None},
        coord_type \in {NoCoordType, "dms"}}

InitMalformed ==
    /\ enable_inspection \in BOOLEAN
    /\ last_transformation_input = None
    /\ unit_broadcast \in BOOLEAN
    /\ call \in MalformedCalls
    /\ result = None
    /\ events = <<>>

SpecMalformed == InitMalformed /\ [][NextRun]_vars

\* ---- SpecLib: one call of lib.convert_coords
LibCalls ==
    {[df |-> df, transformation_params |-> params, coord_type |-> coord_type,
      should_transform |-> TRUE, ext |-> ext, null_list_get |-> g] :
        df \in Datasets, params \in ParamsPool, coord_type \in {"dd", "dms", "cart"},
        ext \in ExtPool, g \in BOOLEAN}
    \cup
    {[df |-> df, transformation_params |-> params, coord_type |-> coord_type,
      should_transform |-> FALSE, ext |-> NoExt, null_list_get |-> FALSE] :
        df \in Datasets, params \in ParamsPool, coord_type \in {"dd", "dms", "cart"}}

InitLib ==
    /\ enable_inspection = TRUE
    /\ last_transformation_input = None
    /\ unit_broadcast \in BOOLEAN
    /\ call \in LibCalls
    /\ result = None
    /\ events = <<>>

\* convert_coords(call.df, call.coord_type, call.should_transform,
\*                **call.transformation_params.to_csrspy_kwargs())
Convert ==
    /\ result = None
    /\ LET r == convert_coords(call.df, call.coord_type, call.should_transform,
                               to_csrspy_kwargs(call.transformation_params), call.ext,
                               unit_broadcast, call.null_list_get)
       IN  /\ result' = r.ret
           /\ events' = r.events
    /\ UNCHANGED <<enable_inspection, last_transformation_input, unit_broadcast, call>>

NextLib == Convert

SpecLib == InitLib /\ [][NextLib]_vars

\* ------------------------------------------------------------------ claims
Inspect == inspect_transformation_input(last_transformation_input)

InspectIsNone == Inspect = [ok |-> TRUE, v |-> None]

Called == call # None /\ result # None

\* the most recent call got as far as constructing the transformer
Performed ==
    /\ Called
    /\ call.should_transform
    /\ \E i \in DOMAIN events : events[i].e = "construct"

\* C1: whenever the most recent call had should_transform=False,
\* inspect_transformation_input() returns None, also when an earlier call of
\* the sequence stored an inspection record.
C1_SkipLeavesNoInspection ==
    (Called /\ ~call.should_transform) => InspectIsNone

\* the representation the most recent call worked on, read off its arguments
CallCoordType ==
    IF call.coord_type # NoCoordType THEN call.coord_type
    ELSE IF {CX, CY, CZ} \subseteq ColSet(call.df) THEN "cart"
    ELSE IF HasCol(call.df, LAT) /\ call.df.dtype[LAT] = "String"
            /\ \E i \in 1..call.df.height : \E k \in DOMAIN call.df.data[LAT][i] :
                    call.df.data[LAT][i][k] = "deg"
    THEN "dms"
    ELSE "dd"

\* C2: with inspection enabled, after every call that performs a
\* transformation inspect_transformation_input() describes that call: its
\* source and target reference frames, its coord_type, and num_coordinates
\* equal to the number of rows of its dataset, whatever was stored before.
C2_InspectionDescribesLastRun ==
    (enable_inspection /\ Performed) =>
        /\ Inspect.ok
        /\ Inspect.v.source_reference_frame = call.transformation_params.s_ref_frame
        /\ Inspect.v.target_reference_frame = call.transformation_params.t_ref_frame
        /\ Inspect.v.coordinate_type = CallCoordType
        /\ Inspect.v.num_coordinates = call.df.height

\* a performed run of two rows towards WGS84 on an inspecting service
C2_Witness ==
    /\ enable_inspection /\ Performed
    /\ call.df.height = 2
    /\ call.transformation_params.t_ref_frame = "WGS84"
    /\ Inspect.ok /\ Inspect.v.num_coordinates = 2

\* C3: a service created with enable_inspection=False answers None to
\* inspect_transformation_input() in every reachable state.
C3_NoInspectionWhenDisabled ==
    ~enable_inspection => InspectIsNone

\* a successful transforming run on a service that does not inspect
C3_Witness ==
    /\ ~enable_inspection /\ Performed /\ result.ok
    /\ InspectIsNone

\* what the transformer of the most recent call returned, <<>> if it was
\* not called or raised
Returned ==
    IF \E i \in DOMAIN events : events[i].e = "transform" /\ events[i].returned.ok
    THEN events[CHOOSE i \in DOMAIN events : events[i].e = "transform"].returned.v
    ELSE <<>>

TransformReturned ==
    /\ Called
    /\ \E i \in DOMAIN events : events[i].e = "transform" /\ events[i].returned.ok

\* C4: when the transformer returns a number of triples other than the
\* number of input rows, transform_coordinates raises and returns no table.
C4_CountMismatchRaises ==
    (TransformReturned /\ Len(Returned) # call.df.height) => ~result.ok

\* the target coordinate type of the most recent call
TargetCoords == call.transformation_params.t_coords

UtmZones == {"UTM10"}

\* C5: a target coordinate type outside geographic, cartesian and the UTM
\* zones makes the call raise instead of returning a table.
C5_UnknownTargetRaises ==
    (Performed /\ TargetCoords \notin ({"GEOG", "CART"} \cup UtmZones)) => ~result.ok

Transformed == Performed /\ result.ok

\* C6: for target cartesian or projected and any input representation the
\* returned table has exactly the columns Timestamp, RGBI_Filename,
\* RGB_Filename, the three coordinate columns, Omega, Phi, Kappa, Roll,
\* Pitch, Yaw, in that order.
C6_CartesianAndProjectedSchema ==
    /\ (Transformed /\ TargetCoords = "CART") =>
            result.df.columns =
                <<"Timestamp", "RGBI_Filename", "RGB_Filename",
                  "Origin (X[m]", "Y[m]", "Z[m])",
                  "Omega[deg]", "Phi[deg]", "Kappa[deg]",
                  "Roll(X)[deg]", "Pitch(Y)[deg]", "Yaw(Z)[deg]">>
    /\ (Transformed /\ TargetCoords \in UtmZones) =>
            result.df.columns =
                <<"Timestamp", "RGBI_Filename", "RGB_Filename",
                  "Easting[m]", "Northing[m]", "Altitude[m]",
                  "Omega[deg]", "Phi[deg]", "Kappa[deg]",
                  "Roll(X)[deg]", "Pitch(Y)[deg]", "Yaw(Z)[deg]">>

\* a DMS table transformed to cartesian, a cartesian one to a UTM zone
C6_Witness ==
    /\ Transformed
    /\ \/ TargetCoords = "CART" /\ CallCoordType = "dms"
       \/ TargetCoords \in UtmZones /\ CallCoordType = "cart"

\* C7: for target geographic and any input representation the returned table
\* has exactly the columns Timestamp, Filename, Latitude, Longitude, Altitude,
\* Roll, Pitch, Yaw, Omega, Phi, Kappa, in that order.
C7_GeographicSchema ==
    (Transformed /\ TargetCoords = "GEOG") =>
        result.df.columns =
            <<"Timestamp", "Filename",
              "Origin (Latitude[deg]", "Longitude[deg]", "Altitude[m])",
              "Roll(X)[deg]", "Pitch(Y)[deg]", "Yaw(Z)[deg]",
              "Omega[deg]", "Phi[deg]", "Kappa[deg]">>

\* a cartesian table transformed to geographic
C7_Witness ==
    Transformed /\ TargetCoords = "GEOG" /\ CallCoordType = "cart"

\* the three coordinate columns of the output schema of a target type, in
\* the order of the components of a returned triple
CoordColumns(t) ==
    IF t = "GEOG" THEN <<"Longitude[deg]", "Origin (Latitude[deg]", "Altitude[m])">>
    ELSE IF t = "CART" THEN <<"Origin (X[m]", "Y[m]", "Z[m])">>
    ELSE <<"Easting[m]", "Northing[m]", "Altitude[m]">>

PassThrough ==
    {"Timestamp", "Roll(X)[deg]", "Pitch(Y)[deg]", "Yaw(Z)[deg]",
     "Omega[deg]", "Phi[deg]", "Kappa[deg]"}

\* C8: in a transforming run the output has the rows of the input, row i
\* carries the components of the i-th returned triple in its coordinate
\* columns and the Timestamp and the six angles of input row i.
C8_RowsCarryTheirTriple ==
    Transformed =>
        /\ result.df.height = call.df.height
        /\ \A i \in 1..result.df.height :
            /\ i <= Len(Returned)
            /\ \A k \in 1..3 :
                 result.df.data[CoordColumns(TargetCoords)[k]][i] = Returned[i][k]
            /\ \A c \in PassThrough : result.df.data[c][i] = call.df.data[c][i]

\* the decimal value, in arc-seconds, of a DMS string with one-digit degrees,
\* minutes and seconds: hemisphere, d, degree sign, blank, m, ', blank, s, "
DmsValue(str) ==
    LET a == 3600 * DigitVal(str[2]) + 60 * DigitVal(str[5]) + DigitVal(str[8])
    IN  IF str[1] \in {"S", "W"} THEN 0 - a ELSE a

Skipped == Called /\ ~call.should_transform /\ result.ok

\* C9: with should_transform false the returned table is the input with
\* RGBI_Filename and RGB_Filename appended and, for dms input, latitude and
\* longitude in decimal degrees; every other column, the order of the columns
\* and of the rows are those of the input, and the transformer is neither
\* constructed nor called.
C9_SkipOnlyNormalizes ==
    Skipped =>
        /\ result.df.columns = call.df.columns \o <<"RGBI_Filename", "RGB_Filename">>
        /\ result.df.height = call.df.height
        /\ \A c \in ColSet(call.df) :
              IF CallCoordType = "dms" /\ c \in {"Origin (Latitude[deg]", "Longitude[deg]"}
              THEN /\ result.df.dtype[c] = "Float64"
                   /\ \A i \in 1..call.df.height :
                        result.df.data[c][i] = DmsValue(call.df.data[c][i])
              ELSE /\ result.df.dtype[c] = call.df.dtype[c]
                   /\ result.df.data[c] = call.df.data[c]
        /\ \A i \in DOMAIN events : events[i].e \notin {"construct", "transform"}

\* a skipped run over two rows of DMS strings, called without parameters
C9_Witness ==
    /\ Skipped
    /\ call.transformation_params = None
    /\ CallCoordType = "dms"
    /\ call.df.height = 2
    /\ call.df.dtype["Origin (Latitude[deg]"] = "String"

HasCartesianColumns == {"Origin (X[m]", "Y[m]", "Z[m])"} \subseteq ColSet(call.df)

Detected == call # None /\ result # None

\* C10: detection answers cart, dms or dd for every table, and cart for every
\* table that has the three cartesian columns, whatever its other columns
\* and their contents.
C10_CartesianColumnsDetectCart ==
    Detected =>
        /\ result.coord_type \in {"cart", "dms", "dd"}
        /\ HasCartesianColumns => result.coord_type = "cart"

\* a table with the cartesian columns and a latitude column of DMS strings
C10_Witness ==
    /\ Detected
    /\ HasCartesianColumns
    /\ HasCol(call.df, "Origin (Latitude[deg]")
    /\ call.df.dtype["Origin (Latitude[deg]"] = "String"
    /\ \E i \in 1..call.df.height :
          StrContains(call.df.data["Origin (Latitude[deg]"][i], <<"deg">>)
    /\ result.coord_type = "cart"

\* the latitude column of the table of the call exists, is textual and has
\* the degree sign in at least one value
LatitudeHasDegreeSign ==
    /\ \E j \in DOMAIN call.df.columns : call.df.columns[j] = "Origin (Latitude[deg]"
    /\ call.df.dtype["Origin (Latitude[deg]"] = "String"
    /\ \E i \in 1..call.df.height :
          \E k \in DOMAIN call.df.data["Origin (Latitude[deg]"][i] :
              call.df.data["Origin (Latitude[deg]"][i][k] = "deg"

\* C11: for a table lacking a cartesian column, detection answers dms exactly
\* when the latitude column exists, is textual and has the degree sign in at
\* least one value, and dd otherwise; the answer does not depend on the
\* longitude column, and a missing column raises nothing.
C11_DmsIffLatitudeHasDegreeSign ==
    (Detected /\ ~HasCartesianColumns) =>
        result.coord_type = IF LatitudeHasDegreeSign THEN "dms" ELSE "dd"

\* DMS latitudes of which only one row has the degree sign, no longitude column
C11_Witness ==
    /\ Detected /\ ~HasCartesianColumns
    /\ ~HasCol(call.df, "Longitude[deg]")
    /\ LatitudeHasDegreeSign
    /\ \E i \in 1..call.df.height :
          ~StrContains(call.df.data["Origin (Latitude[deg]"][i], <<"deg">>)
    /\ result.coord_type = "dms"

Parsed == call # None /\ result # None /\ call.op = "dms_to_decimal"

\* C12: for a DMS string made of a hemisphere letter, degrees, minutes and
\* seconds, dms_to_decimal returns degrees + minutes/60 + seconds/3600, that
\* is (3600*deg + 60*min + sec) arc-seconds, negated exactly when the letter
\* is S or W.
C12_DmsToDecimalValue ==
    Parsed =>
        /\ result.ok
        /\ result.v = IF call.hem = "S" \/ call.hem = "W"
                      THEN 0 - (3600 * call.deg + 60 * call.min + call.sec)
                      ELSE 3600 * call.deg + 60 * call.min + call.sec

\* W123deg 15' 30" parsed to -(123 + 15/60 + 30/3600)
C12_Witness ==
    /\ Parsed
    /\ call.dms_str = <<"W", "1", "2", "3", "deg", " ", "1", "5", "'", " ", "3", "0", "dq">>
    /\ result.ok /\ result.v = 0 - 443730

\* s[a..b] is a numeral: one or more decimal digits
IsNumeral(s, a, b) == a <= b /\ \A k \in a..b : s[k] \in Digits

\* <hemisphere letter><degrees>deg <minutes>' <seconds>"
WellFormedDms(s) ==
    /\ Len(s) >= 9
    /\ s[1] \in {"N", "S", "E", "W"}
    /\ s[Len(s)] = "dq"
    /\ \E i \in 3..Len(s) : \E j \in (i + 3)..Len(s) :
          /\ s[i] = "deg" /\ s[i + 1] = " "
          /\ s[j] = "'" /\ s[j + 1] = " "
          /\ IsNumeral(s, 2, i - 1)
          /\ IsNumeral(s, i + 2, j - 1)
          /\ IsNumeral(s, j + 2, Len(s) - 1)

\* the call works on DMS input of which some latitude or longitude is malformed
MalformedInput ==
    /\ Called
    /\ CallCoordType = "dms"
    /\ \E c \in {"Origin (Latitude[deg]", "Longitude[deg]"} :
          /\ HasCol(call.df, c)
          /\ call.df.dtype[c] = "String"
          /\ \E i \in 1..call.df.height : ~WellFormedDms(call.df.data[c][i])

\* C13: a malformed DMS string in any row makes transform_coordinates raise:
\* no table is returned, so no row carries a defaulted or wrong number.
C13_MalformedDmsRaises ==
    MalformedInput => ~result.ok

Preprocessed == call # None /\ result # None /\ call.op = "preprocess_dataframe"

\* the positions at which .iiq occurs in a filename
IiqAt(fn) ==
    {i \in 1..(Len(fn) - 3) : SubSeq(fn, i, i + 3) = <<".", "i", "i", "q">>}

\* C14: in every row RGBI_Filename is the Filename with its .iiq extension
\* replaced by _rgbi.tif and RGB_Filename the Filename with .iiq replaced by
\* _cal.tif; a Filename without .iiq is copied into both as it is; Filename
\* keeps its value; no filename makes the call fail.
C14_DerivedFilenames ==
    Preprocessed =>
        /\ call.coord_type # "dms" => result.ok
        /\ result.ok =>
            \A i \in 1..call.df.height :
                LET fn == call.df.data["Filename"][i]
                    stem == SubSeq(fn, 1, Len(fn) - 4)
                IN  /\ result.df.data["Filename"][i] = fn
                    /\ IiqAt(fn) = {} =>
                          /\ result.df.data["RGBI_Filename"][i] = fn
                          /\ result.df.data["RGB_Filename"][i] = fn
                    /\ IiqAt(fn) = {Len(fn) - 3} =>
                          /\ result.df.data["RGBI_Filename"][i] =
                                stem \o <<"_", "r", "g", "b", "i", ".", "t", "i", "f">>
                          /\ result.df.data["RGB_Filename"][i] =
                                stem \o <<"_", "c", "a", "l", ".", "t", "i", "f">>

\* a table whose rows are named a.iiq and b.tif
C14_Witness ==
    /\ Preprocessed /\ result.ok
    /\ call.df.data["Filename"] = << <<"a", ".", "i", "i", "q">>, <<"b", ".", "t", "i", "f">> >>
    /\ result.df.data["RGBI_Filename"][1] = <<"a", "_", "r", "g", "b", "i", ".", "t", "i", "f">>
    /\ result.df.data["RGB_Filename"][2] = <<"b", ".", "t", "i", "f">>

\* C15: of a filename that contains .iiq more than once only the first
\* occurrence is replaced; the rest of the name is kept in both derived names.
C15_FirstOccurrenceOnly ==
    (Preprocessed /\ result.ok) =>
        \A i \in 1..call.df.height :
            LET fn == call.df.data["Filename"][i]
                first == CHOOSE k \in IiqAt(fn) : \A j \in IiqAt(fn) : k <= j
            IN  Cardinality(IiqAt(fn)) > 1 =>
                    /\ result.df.data["RGBI_Filename"][i] =
                          SubSeq(fn, 1, first - 1)
                            \o <<"_", "r", "g", "b", "i", ".", "t", "i", "f">>
                            \o SubSeq(fn, first + 4, Len(fn))
                    /\ result.df.data["RGB_Filename"][i] =
                          SubSeq(fn, 1, first - 1)
                            \o <<"_", "c", "a", "l", ".", "t", "i", "f">>
                            \o SubSeq(fn, first + 4, Len(fn))

Extracted == call # None /\ result # None /\ call.op = "extract_coordinates"

\* C16: extract_coordinates returns one triple per row in row order:
\* (longitude, latitude, altitude) for dd and dms input, (X, Y, Z) for
\* cartesian input, whenever the table has the three columns.
C16_TriplesInTransformOrder ==
    Extracted =>
        /\ (call.coord_type = "cart"
              /\ {"Origin (X[m]", "Y[m]", "Z[m])"} \subseteq ColSet(call.df)) =>
                /\ result.ok
                /\ Len(result.coordinates) = call.df.height
                /\ \A i \in 1..call.df.height :
                      result.coordinates[i] =
                        <<call.df.data["Origin (X[m]"][i], call.df.data["Y[m]"][i],
                          call.df.data["Z[m])"][i]>>
        /\ (call.coord_type \in {"dd", "dms"}
              /\ {"Origin (Latitude[deg]", "Longitude[deg]", "Altitude[m])"}
                    \subseteq ColSet(call.df)) =>
                /\ result.ok
                /\ Len(result.coordinates) = call.df.height
                /\ \A i \in 1..call.df.height :
                      result.coordinates[i] =
                        <<call.df.data["Longitude[deg]"][i],
                          call.df.data["Origin (Latitude[deg]"][i],
                          call.df.data["Altitude[m])"][i]>>

\* two rows of decimal degrees read as dms input: longitude comes first
C16_Witness ==
    /\ Extracted /\ result.ok
    /\ call.coord_type = "dms"
    /\ call.df.height = 2
    /\ call.df.dtype["Longitude[deg]"] = "Float64"
    /\ result.coordinates[2][1] = call.df.data["Longitude[deg]"][2]
    /\ result.coordinates[2][1] # call.df.data["Origin (Latitude[deg]"][2]

\* the positions of the transformer calls in the log of the most recent run
TransformCalls == {i \in DOMAIN events : events[i].e = "transform"}

\* the triple of row i of the table of the call, in the order the transformer
\* expects, DMS strings taken at their decimal value
RowTriple(i) ==
    IF CallCoordType = "cart"
    THEN <<call.df.data["Origin (X[m]"][i], call.df.data["Y[m]"][i], call.df.data["Z[m])"][i]>>
    ELSE IF CallCoordType = "dms"
    THEN <<DmsValue(call.df.data["Longitude[deg]"][i]),
           DmsValue(call.df.data["Origin (Latitude[deg]"][i]),
           call.df.data["Altitude[m])"][i]>>
    ELSE <<call.df.data["Longitude[deg]"][i], call.df.data["Origin (Latitude[deg]"][i],
           call.df.data["Altitude[m])"][i]>>

\* C17: a run calls the transformer at most once, a run that returns a
\* transformed table exactly once, each time with the triples of all rows in
\* row order; a skipped run never calls it.
C17_TransformerCalledOnceWithAllRows ==
    Called =>
        /\ Cardinality(TransformCalls) <= 1
        /\ ~call.should_transform => TransformCalls = {}
        /\ Transformed => Cardinality(TransformCalls) = 1
        /\ \A k \in TransformCalls :
              /\ Len(events[k].points) = call.df.height
              /\ \A i \in 1..call.df.height : events[k].points[i] = RowTriple(i)

\* a transformed table of two rows of DMS strings: one call with two triples
C17_Witness ==
    /\ Transformed
    /\ CallCoordType = "dms"
    /\ call.df.height = 2
    /\ \E k \in TransformCalls :
          /\ Len(events[k].points) = 2
          /\ events[k].points[2] = RowTriple(2)

\* C18: preprocess_dataframe replaces latitude and longitude by their
\* decimal-degree values for dms input only; for dd and cart input they are
\* unchanged; every other input column keeps its dtype and values, the input
\* columns keep their order, and the rows their number and order.
C18_PreprocessFrame ==
    (Preprocessed /\ result.ok) =>
        /\ result.df.height = call.df.height
        /\ SubSeq(result.df.columns, 1, Len(call.df.columns)) = call.df.columns
        /\ \A c \in ColSet(call.df) :
              IF call.coord_type = "dms" /\ c \in {"Origin (Latitude[deg]", "Longitude[deg]"}
              THEN /\ result.df.dtype[c] = "Float64"
                   /\ Len(result.df.data[c]) = call.df.height
                   /\ \A i \in 1..call.df.height :
                        result.df.data[c][i] = DmsValue(call.df.data[c][i])
              ELSE /\ result.df.dtype[c] = call.df.dtype[c]
                   /\ result.df.data[c] = call.df.data[c]

\* two rows of DMS strings preprocessed as dms
C18_Witness ==
    /\ Preprocessed /\ result.ok
    /\ call.coord_type = "dms"
    /\ call.df.height = 2
    /\ call.df.dtype["Origin (Latitude[deg]"] = "String"
    /\ result.df.data["Origin (Latitude[deg]"][2] = 0 - 7323

\* the table has the geographic triple or the cartesian triple, and not both
ExactlyOneTriple(df) ==
    ({"Origin (Latitude[deg]", "Longitude[deg]", "Altitude[m])"} \subseteq ColSet(df))
        # ({"Origin (X[m]", "Y[m]", "Z[m])"} \subseteq ColSet(df))

\* C19: the table passed in, and the table returned, normalized or
\* transformed, each carry exactly one of the geographic and the cartesian
\* coordinate triple.
C19_ExactlyOneTriple ==
    Called =>
        /\ ExactlyOneTriple(call.df)
        /\ result.ok => ExactlyOneTriple(result.df)

Constructed == call # None /\ result # None /\ call.op = "CoordinateData"

\* the elements of the coordinates list of the call that do not have 3 values
Offenders == {i \in 1..Len(call.coordinates) : Len(call.coordinates[i]) # 3}

\* C20: constructing CoordinateData raises ValueError for an empty list,
\* raises ValueError naming the index (from 0) of the first element that
\* does not have 3 values when there is one, and otherwise succeeds keeping
\* coord_type and coordinates as given.
C20_CoordinateDataValidation ==
    Constructed =>
        /\ call.coordinates = <<>> =>
              ~result.ok /\ result.err = "ValueError" /\ result.msg = "empty"
        /\ Offenders # {} =>
              /\ ~result.ok /\ result.err = "ValueError" /\ result.msg = "3 values"
              /\ result.index + 1 \in Offenders
              /\ \A i \in Offenders : result.index + 1 <= i
        /\ result.ok <=> (call.coordinates # <<>> /\ Offenders = {})
        /\ result.ok =>
              /\ result.v.coord_type = call.coord_type
              /\ result.v.coordinates = call.coordinates

\* a triple followed by a 4-tuple: the error names index 1
C20_Witness ==
    /\ Constructed
    /\ Len(call.coordinates) = 2
    /\ Len(call.coordinates[1]) = 3
    /\ Len(call.coordinates[2]) = 4
    /\ ~result.ok /\ result.index = 1

\* the summary names the parameters of the call, the representation worked
\* on and the number of rows
SummaryOfCall ==
    /\ Inspect.ok
    /\ Inspect.v.source_reference_frame = call.transformation_params.s_ref_frame
    /\ Inspect.v.source_coord_type = call.transformation_params.s_coords
    /\ Inspect.v.source_vertical_datum = call.transformation_params.s_vd
    /\ Inspect.v.source_epoch = call.transformation_params.s_epoch
    /\ Inspect.v.target_reference_frame = call.transformation_params.t_ref_frame
    /\ Inspect.v.target_coord_type = call.transformation_params.t_coords
    /\ Inspect.v.target_vertical_datum = call.transformation_params.t_vd
    /\ Inspect.v.target_epoch = call.transformation_params.t_epoch
    /\ Inspect.v.coordinate_type = CallCoordType
    /\ Inspect.v.num_coordinates = call.df.height

\* C21 as stated: the summary of a run carries the parameters, the detected
\* representation, the point count, and the first and last transformed point,
\* that is the first and last triple the transformer returned.
C21_SummaryCarriesTransformedPoints ==
    (enable_inspection /\ TransformReturned /\ Returned # <<>>) =>
        /\ SummaryOfCall
        /\ Inspect.v.first_coordinate = Returned[1]
        /\ Inspect.v.last_coordinate = Returned[Len(Returned)]

\* C21 amended: the summary of a run carries the parameters, the detected
\* representation, the point count, and the first and last point handed to
\* the transformer, that is the triples of the first and the last row.
C21_SummaryCarriesInputPoints ==
    (enable_inspection /\ Performed) =>
        /\ SummaryOfCall
        /\ Inspect.v.first_coordinate = RowTriple(1)
        /\ Inspect.v.last_coordinate = RowTriple(call.df.height)

\* a run of two rows whose transformer moves the points
C21_Witness ==
    /\ enable_inspection /\ Transformed
    /\ call.df.height = 2
    /\ Inspect.v.first_coordinate = RowTriple(1)
    /\ Inspect.v.last_coordinate = RowTriple(2)
    /\ Inspect.v.first_coordinate # Returned[1]
    /\ Inspect.v.first_coordinate # Inspect.v.last_coordinate

\* ---- C22
Validated == call.op \in {"validate_and_display_file", "app"} /\ result # None

ContainsAll(cols) == \A i \in DOMAIN cols : HasCol(call.df, cols[i])

Acceptable ==
    ContainsAll(REQUIRED_FILE_COLS_GEOGRAPHIC) \/ ContainsAll(REQUIRED_FILE_COLS_CARTESIAN)

\* C22: file validation accepts an uploaded table exactly when it contains
\* every column of the geographic required set or every column of the
\* cartesian required set; in every other case an error is shown and the run
\* is stopped.
C22_AcceptedIffOneRequiredSet ==
    Validated =>
        /\ result.ok <=> Acceptable
        /\ ~result.ok => result.err = "StopException" /\ "error" \in DOMAIN result

\* ---- C23
Rendered == call.op \in {"render_parameters", "_get_params"} /\ result # None

RenderedCoords == IF call.w.prefix = "s" THEN result.v.s_coords ELSE result.v.t_coords

ZoneNames ==
    [z \in 3..23 |->
        <<"UTM3", "UTM4", "UTM5", "UTM6", "UTM7", "UTM8", "UTM9", "UTM10", "UTM11",
          "UTM12", "UTM13", "UTM14", "UTM15", "UTM16", "UTM17", "UTM18", "UTM19",
          "UTM20", "UTM21", "UTM22", "UTM23">>[z - 2]]

\* C23: for source and target alike, a Geographic selection gives the
\* geographic type, a Cartesian selection the cartesian type (never the
\* geographic one), and Projected with zone z in 3..23 the UTM type of
\* exactly zone z.
C23_SelectionToCoordType ==
    Rendered =>
        /\ call.w.coords = "Geographic" => RenderedCoords = "GEOG"
        /\ call.w.coords = "Cartesian" => RenderedCoords = "CART"
        /\ call.w.coords = "Projected" => RenderedCoords = ZoneNames[call.w.utm_zone]

\* ---- C24
\* the table carries the triple of the representation the call works on
TripleOfCallPresent ==
    IF CallCoordType = "cart" THEN {CX, CY, CZ} \subseteq ColSet(call.df)
    ELSE {LAT, LON, ALT} \subseteq ColSet(call.df)

EmptyTransformCall == call.df.height = 0 /\ call.should_transform /\ TripleOfCallPresent

\* C24: transform_coordinates with should_transform=True on a table of zero
\* rows (coord_type detected, or naming a representation whose triple the
\* table carries) raises ValueError before the transformer is constructed or
\* invoked and leaves last_transformation_input as it was before the call.
C24_EmptyTableRaisesBeforeTransformer ==
    [][(result = None /\ EmptyTransformCall) =>
            /\ result' = [ok |-> FALSE, err |-> "ValueError", msg |-> "empty"]
            /\ \A i \in DOMAIN events' : events'[i].e \notin {"construct", "transform"}
            /\ last_transformation_input' = last_transformation_input]_vars

\* an inspecting service that holds the record of an earlier run has been
\* called on an empty table
C24_Witness ==
    /\ Called
    /\ EmptyTransformCall
    /\ enable_inspection
    /\ call.transformation_params # None
    /\ ~result.ok
    /\ last_transformation_input = PriorInput

\* ---- C25
\* the transformer of the most recent call was constructed and the call
\* raised: in the constructor, in the transformer or in the reshape
FailedAfterStore == Performed /\ ~result.ok

\* C25: with inspection enabled the record of a run is stored before the
\* transformer is constructed and invoked: after a run whose transformer or
\* reshape failed, inspect_transformation_input() describes that run, whatever
\* an earlier run had stored.
C25_FailedRunIsTheOneDescribed ==
    (enable_inspection /\ FailedAfterStore) =>
        /\ last_transformation_input # None
        /\ last_transformation_input.original_df = call.df
        /\ last_transformation_input.transformation_params = call.transformation_params
        /\ SummaryOfCall
        /\ Inspect.v.first_coordinate = RowTriple(1)
        /\ Inspect.v.last_coordinate = RowTriple(call.df.height)

\* a run of two rows whose transformer raised, on a service whose earlier
\* run had one row
C25_Witness ==
    /\ enable_inspection /\ FailedAfterStore
    /\ \E i \in DOMAIN events : events[i].e = "transform" /\ ~events[i].returned.ok
    /\ call.df.height = 2
    /\ PriorInput.original_df.height = 1
    /\ Inspect.ok /\ Inspect.v.num_coordinates = 2

\* ---- C26
\* C26: in every transform_coordinates call, transforming or skipped,
\* failing or not, sync_missing_grid_files is called exactly once and before
\* everything else the call does; the transformer is constructed and invoked
\* only after it.
C26_SyncOnceAndFirst ==
    Called =>
        /\ events # <<>>
        /\ events[1].e = "sync"
        /\ \A i \in 2..Len(events) : events[i].e \in {"construct", "transform"}

\* a skipped run, which touches no transformer, has synced
C26_Witness ==
    /\ Skipped
    /\ events = <<[e |-> "sync"]>>

\* ---- C27
\* a run on decimal-degree input towards a geographic target whose
\* transformer returned the triples it was given
IdentityRoundTrip ==
    /\ Transformed
    /\ CallCoordType = "dd"
    /\ TargetCoords = "GEOG"
    /\ \E i \in DOMAIN events :
            events[i].e = "transform" /\ events[i].returned = [ok |-> TRUE, v |-> events[i].points]

\* C27: for decimal-degree input and a geographic target, when the
\* transformer returns its input triples unchanged every output row has the
\* Latitude, Longitude and Altitude of the same input row: the triple handed
\* over is (lon, lat, alt) and index 1 is written back to Latitude, index 0
\* to Longitude.
C27_SwapRoundTrip ==
    IdentityRoundTrip =>
        /\ result.df.height = call.df.height
        /\ \A i \in 1..call.df.height :
              /\ result.df.data[LAT][i] = call.df.data[LAT][i]
              /\ result.df.data[LON][i] = call.df.data[LON][i]
              /\ result.df.data[ALT][i] = call.df.data[ALT][i]
              /\ \E j \in DOMAIN events :
                    /\ events[j].e = "transform"
                    /\ events[j].points[i] = <<call.df.data[LON][i], call.df.data[LAT][i],
                                                call.df.data[ALT][i]>>

\* two rows went through, with latitudes that differ from the longitudes
C27_Witness ==
    /\ IdentityRoundTrip
    /\ call.df.height = 2
    /\ \A i \in 1..2 : result.df.data[LAT][i] # result.df.data[LON][i]
    /\ result.df.data[LAT][1] # result.df.data[LAT][2]

\* ---- C28
\* what transformation_service.transform_coordinates does on the arguments
\* of the call
ServiceOutcome ==
    transform_coordinates(last_transformation_input, enable_inspection, call.df,
                          call.transformation_params, call.coord_type,
                          call.should_transform, call.ext, unit_broadcast)

EightFields ==
    {"s_ref_frame", "s_coords", "s_vd", "s_epoch", "t_ref_frame", "t_coords", "t_vd", "t_epoch"}

====
